---------------------------- MODULE Spec2Model ----------------------------
(***************************************************************************)
(* Model of daedalus/src/minecraft.rs: the content resolver                *)
(* (Library::resolve_url), the partial merge engine                        *)
(* (merge_partial_library) and the group fingerprint                       *)
(* (LWJGLEntry::from_group).                                               *)
(*                                                                         *)
(* Conventions.                                                            *)
(*  - Option<T>: None is <<>>, Some(x) is <<x>>.                           *)
(*  - A Rust String that the code slices or formats is a sequence of       *)
(*    characters; each character has a UTF-8 width (Utf8Width), and        *)
(*    str::len and the range slices count BYTES, as in Rust.               *)
(*  - A Rust String that the code only compares or stores is a TLA+ string.*)
(*  - A std HashMap is a sequence of <<key, value>> pairs with distinct    *)
(*    keys: the order of the sequence is the iteration order, which the    *)
(*    hasher seed of that map instance decides.  A BTreeMap is a function   *)
(*    on its key set (iteration is by key order).                          *)
(***************************************************************************)
EXTENDS Integers, Sequences, FiniteSets, TLC

VARIABLES lib, call, origin, appliedRules, groups, entries, input

vars == <<lib, call, origin, appliedRules, groups, entries, input>>

---------------------------------------------------------------------------
(* Option<T> *)

None == <<>>

Some(x) == <<x>>

IsSome(o) == Len(o) = 1

IsNone(o) == Len(o) = 0

Unwrap(o) == o[1]

\* BTreeMap::new(): the map with no key
EmptyBTreeMap == <<>>

\* the map in an Option<BTreeMap>, an absent map read as the empty map
MapOf(o) == IF IsSome(o) THEN Unwrap(o) ELSE EmptyBTreeMap

\* the elements of an Option<Vec>, an absent list read as the empty list
ListOf(o) == IF IsSome(o) THEN Unwrap(o) ELSE <<>>

---------------------------------------------------------------------------
(* Bounds of the model *)

\* longest content hash, in characters, stored in a version_hashes map
MaxHashLen == 3

\* number of merges applied in a row to one library
MaxMerges == 2

\* number of hyphen-separated segments of an Os token read from a document
MaxSegments == 2

\* longest rule list given to the rule evaluator
MaxRules == 2

---------------------------------------------------------------------------
(* Strings: UTF-8 byte lengths and byte-indexed slices *)

\* the two-byte character U+00E9
EAcute == "U+00E9"

\* number of bytes of the UTF-8 encoding of a character
Utf8Width(c) == IF c = EAcute THEN 2 ELSE 1

RECURSIVE StrLen(_)
\* str::len: the length in bytes
StrLen(s) == IF s = <<>> THEN 0 ELSE Utf8Width(Head(s)) + StrLen(Tail(s))

\* str::is_char_boundary: byte index i falls between two characters
IsCharBoundary(s, i) == \E k \in 0..Len(s) : StrLen(SubSeq(s, 1, k)) = i

\* number of characters that end at byte index i (i a char boundary)
CharsBefore(s, i) == CHOOSE k \in 0..Len(s) : StrLen(SubSeq(s, 1, k)) = i

\* &s[..i]; defined when i is a char boundary, the slice panics otherwise
SliceTo(s, i) == SubSeq(s, 1, CharsBefore(s, i))

\* &s[i..]; defined when i is a char boundary, the slice panics otherwise
SliceFrom(s, i) == SubSeq(s, CharsBefore(s, i) + 1, Len(s))

Digits == <<"0", "1", "2", "3", "4", "5", "6", "7", "8", "9">>

RECURSIVE FormatU32(_)
\* Display of a u32: its decimal digits
FormatU32(n) ==
    IF n < 10 THEN <<Digits[n + 1]>>
    ELSE FormatU32(n \div 10) \o <<Digits[(n % 10) + 1]>>

---------------------------------------------------------------------------
(* std::collections::HashMap *)

HashMapKeys(m) == {m[i][1] : i \in 1..Len(m)}

\* HashMap::get: exact key equality
HashMapGet(m, k) ==
    IF \E i \in 1..Len(m) : m[i][1] = k
    THEN Some(m[CHOOSE i \in 1..Len(m) : m[i][1] = k][2])
    ELSE None

\* the entries of a map as a set: what equality of two HashMaps compares
HashMapEntries(m) == {m[i] : i \in 1..Len(m)}

---------------------------------------------------------------------------
(* Library *)

\* a Library as deserialization leaves it when only `name` is in the document
DefaultLibrary ==
    [downloads |-> None, extract |-> None, name |-> "org.lwjgl:lwjgl:3.3.1",
     url |-> None, natives |-> None, rules |-> None, checksums |-> None,
     include_in_classpath |-> TRUE, patched |-> FALSE, version_hashes |-> None]

\* outcome of a call: a returned value, or a panic (no value)
Returned(v) == [panicked |-> FALSE, value |-> v]

Panicked == [panicked |-> TRUE, value |-> None]

\* format!("{}/v{}/objects/{}/{}", base_url, cas_version, &hash[..2], &hash[2..])
CasUrl(base_url, cas_version, hash) ==
    base_url \o <<"/", "v">> \o FormatU32(cas_version)
             \o <<"/", "o", "b", "j", "e", "c", "t", "s", "/">>
             \o SliceTo(hash, 2) \o <<"/">> \o SliceFrom(hash, 2)

\* resolve_url that falls back to `url` when the stored hash is too short
resolve_url_short_falls_back(self, minecraft_version, base_url, cas_version) ==
    LET found == IF IsSome(self.version_hashes)
                 THEN HashMapGet(Unwrap(self.version_hashes), minecraft_version)
                 ELSE None
    IN  IF IsSome(found) /\ StrLen(Unwrap(found)) >= 2
        THEN IF ~IsCharBoundary(Unwrap(found), 2) THEN Panicked
             ELSE Returned(Some(CasUrl(base_url, cas_version, Unwrap(found))))
        ELSE Returned(self.url)

\* resolve_url that returns None instead of falling back to `url`
resolve_url_no_fallback(self, minecraft_version, base_url, cas_version) ==
    LET found == IF IsSome(self.version_hashes)
                 THEN HashMapGet(Unwrap(self.version_hashes), minecraft_version)
                 ELSE None
    IN  IF IsSome(found)
        THEN IF StrLen(Unwrap(found)) < 2 THEN Returned(None)
             ELSE IF ~IsCharBoundary(Unwrap(found), 2) THEN Panicked
             ELSE Returned(Some(CasUrl(base_url, cas_version, Unwrap(found))))
        ELSE Returned(None)

\* Library::resolve_url
resolve_url(self, minecraft_version, base_url, cas_version) ==
    LET found == IF IsSome(self.version_hashes)
                 THEN HashMapGet(Unwrap(self.version_hashes), minecraft_version)
                 ELSE None
    IN  IF IsSome(found)
        THEN IF StrLen(Unwrap(found)) < 2 THEN Returned(None)
             ELSE IF ~IsCharBoundary(Unwrap(found), 2) THEN Panicked
             ELSE Returned(Some(CasUrl(base_url, cas_version, Unwrap(found))))
        ELSE Returned(self.url)

---------------------------------------------------------------------------
(* Inputs of the content resolver *)

HashChars == {"a", "b", EAcute}

RECURSIVE StringsUpTo(_, _)
\* every string over `chars` of at most n characters
StringsUpTo(chars, n) ==
    IF n = 0 THEN {<<>>}
    ELSE LET shorter == StringsUpTo(chars, n - 1)
         IN  shorter \cup {Append(s, c) : s \in shorter, c \in chars}

Hashes == StringsUpTo(HashChars, MaxHashLen)

VersionKeys == {"1.20", "1.20.1"}

RequestedVersions == {"1.20", "1.20.1", "1.2"}

OtherHash == <<"c", "d", "e">>

\* version_hashes maps of up to two entries, in either iteration order
VersionHashMaps ==
    {<<>>}
    \cup {<< <<k, h>> >> : k \in VersionKeys, h \in Hashes}
    \cup UNION {{<< <<k, h>>, <<k2, OtherHash>> >> : k2 \in VersionKeys \ {k}} :
                    k \in VersionKeys, h \in Hashes}
    \cup UNION {{<< <<k2, OtherHash>>, <<k, h>> >> : k2 \in VersionKeys \ {k}} :
                    k \in VersionKeys, h \in Hashes}

StaticUrl == <<"h", ":", "x">>

ResolveLibraries ==
    {[DefaultLibrary EXCEPT !.url = u, !.version_hashes = vh] :
        u \in {None, Some(StaticUrl)},
        vh \in {None} \cup {Some(m) : m \in VersionHashMaps}}

BaseUrls == {<<"m">>, <<"m", "/", "c">>}

CasVersions == {0, 12}

NoCall == [op |-> "none"]

\* the two slots that hold a LibraryGroup and the LWJGLEntry made from it
Slots == {"A", "B"}

NoGroups == [w \in Slots |-> None]

NoEntries == [w \in Slots |-> None]

InitResolve ==
    /\ lib \in ResolveLibraries
    /\ call = NoCall
    /\ origin = lib
    /\ appliedRules = <<>>
    /\ groups = NoGroups
    /\ entries = NoEntries
    /\ input = None

\* one call of lib.resolve_url(minecraft_version, base_url, cas_version)
ResolveUrl ==
    \E v \in RequestedVersions, b \in BaseUrls, c \in CasVersions :
        /\ call' = [op |-> "resolve_url", self |-> lib, minecraft_version |-> v,
                    base_url |-> b, cas_version |-> c,
                    result |-> resolve_url(lib, v, b, c)]
        /\ UNCHANGED <<lib, origin, appliedRules, groups, entries, input>>

NextResolve == ResolveUrl

SpecResolve == InitResolve /\ [][NextResolve]_vars

---------------------------------------------------------------------------
(* Properties of the content resolver *)

IsResolveCall == call.op = "resolve_url"

\* the hash stored under the requested version of the last call, if any
CallHash ==
    IF IsSome(call.self.version_hashes)
    THEN HashMapGet(Unwrap(call.self.version_hashes), call.minecraft_version)
    ELSE None

\* "<base_url>/v<cas_version>/objects/"
ObjectsPrefix(base_url, cas_version) ==
    base_url \o <<"/", "v">> \o FormatU32(cas_version)
             \o <<"/", "o", "b", "j", "e", "c", "t", "s", "/">>

\* u is a CAS URL of hash h: the prefix, then h cut in two path segments
IsCasUrlOf(u, base_url, cas_version, h) ==
    \E k \in 0..Len(h) :
        u = ObjectsPrefix(base_url, cas_version)
              \o SubSeq(h, 1, k) \o <<"/">> \o SubSeq(h, k + 1, Len(h))

\* C1: whenever version_hashes holds the requested version with a hash of
\* length >= 2, resolve_url returns the CAS URL built from that hash, for
\* every value of the url field.
C1_HashTakesPrecedence ==
    (IsResolveCall /\ IsSome(CallHash) /\ StrLen(Unwrap(CallHash)) >= 2)
        => /\ ~call.result.panicked
           /\ IsSome(call.result.value)
           /\ IsCasUrlOf(Unwrap(call.result.value), call.base_url,
                         call.cas_version, Unwrap(CallHash))

\* C2: for every hash h of at least two characters under the requested
\* version, the result is Some(base_url + "/v" + cas_version + "/objects/" +
\* the first two characters of h + "/" + the remaining characters of h).
C2_CasUrlShape ==
    (IsResolveCall /\ IsSome(CallHash) /\ Len(Unwrap(CallHash)) >= 2)
        => LET h == Unwrap(CallHash)
           IN  call.result =
                 Returned(Some(ObjectsPrefix(call.base_url, call.cas_version)
                                 \o SubSeq(h, 1, 2) \o <<"/">>
                                 \o SubSeq(h, 3, Len(h))))

\* C3: when version_hashes holds the requested version and the stored hash
\* has a length (str::len) below 2, resolve_url returns None: it does not
\* panic and it does not fall back to url.
C3_ShortHashIsNone ==
    (IsResolveCall /\ IsSome(CallHash) /\ StrLen(Unwrap(CallHash)) < 2)
        => call.result = Returned(None)

\* a one-character hash under the requested version, with url present
C3_Witness ==
    /\ IsResolveCall
    /\ IsSome(CallHash)
    /\ StrLen(Unwrap(CallHash)) = 1
    /\ IsSome(call.self.url)
    /\ call.result = Returned(None)

\* C4: when version_hashes is absent or has no key equal to the requested
\* version, resolve_url returns the url field, whatever base_url and
\* cas_version are.
C4_FallsBackToUrl ==
    (IsResolveCall /\ IsNone(CallHash))
        => call.result = Returned(call.self.url)

\* the map holds "1.20.1" only, "1.20" is requested, and url is returned
C4_Witness ==
    /\ IsResolveCall
    /\ IsSome(call.self.version_hashes)
    /\ HashMapKeys(Unwrap(call.self.version_hashes)) = {"1.20.1"}
    /\ call.minecraft_version = "1.20"
    /\ IsSome(call.self.url)
    /\ call.result = Returned(call.self.url)

---------------------------------------------------------------------------
(* std::collections::BTreeMap: a function on its key set *)

\* BTreeMap::insert: sets the value of k, replacing the old value if any
BTreeInsert(m, k, v) ==
    [x \in (DOMAIN m) \cup {k} |-> IF x = k THEN v ELSE m[x]]

RECURSIVE InsertAll(_, _)
\* for entry in from { into.insert(entry.0, entry.1); }
InsertAll(into, from) ==
    IF DOMAIN from = {} THEN into
    ELSE LET k == CHOOSE x \in DOMAIN from : TRUE
         IN  InsertAll(BTreeInsert(into, k, from[k]),
                       [x \in (DOMAIN from) \ {k} |-> from[x]])

RECURSIVE PushAll(_, _)
\* for item in from { into.push(item); }
PushAll(into, from) ==
    IF from = <<>> THEN into
    ELSE PushAll(Append(into, Head(from)), Tail(from))

---------------------------------------------------------------------------
(* merge_partial_library, one step per field in the order of the source *)

\* downloads step that replaces the classifiers map instead of merging it
MergeDownloadsShallow(partial, merge) ==
    IF IsSome(partial.downloads)
    THEN LET downloads == Unwrap(partial.downloads)
         IN  IF IsSome(merge.downloads)
             THEN LET md == Unwrap(merge.downloads)
                      md1 == IF IsSome(downloads.artifact)
                             THEN [md EXCEPT !.artifact = downloads.artifact]
                             ELSE md
                      md2 == IF IsSome(downloads.classifiers)
                             THEN [md1 EXCEPT !.classifiers = downloads.classifiers]
                             ELSE md1
                  IN  [merge EXCEPT !.downloads = Some(md2)]
             ELSE [merge EXCEPT !.downloads = Some(downloads)]
    ELSE merge

\* if let Some(downloads) = partial.downloads { ... }
MergeDownloads(partial, merge) ==
    IF IsSome(partial.downloads)
    THEN LET downloads == Unwrap(partial.downloads)
         IN  IF IsSome(merge.downloads)
             THEN LET md == Unwrap(merge.downloads)
                      md1 == IF IsSome(downloads.artifact)
                             THEN [md EXCEPT !.artifact =
                                       Some(Unwrap(downloads.artifact))]
                             ELSE md
                      md2 == IF IsSome(downloads.classifiers)
                             THEN IF IsSome(md1.classifiers)
                                  THEN [md1 EXCEPT !.classifiers =
                                          Some(InsertAll(Unwrap(md1.classifiers),
                                                 Unwrap(downloads.classifiers)))]
                                  ELSE [md1 EXCEPT !.classifiers =
                                          Some(Unwrap(downloads.classifiers))]
                             ELSE md1
                  IN  [merge EXCEPT !.downloads = Some(md2)]
             ELSE [merge EXCEPT !.downloads = Some(downloads)]
    ELSE merge

\* if let Some(extract) = partial.extract { merge.extract = Some(extract) }
MergeExtract(partial, merge) ==
    IF IsSome(partial.extract)
    THEN [merge EXCEPT !.extract = Some(Unwrap(partial.extract))]
    ELSE merge

\* if let Some(name) = partial.name { merge.name = name }
MergeName(partial, merge) ==
    IF IsSome(partial.name)
    THEN [merge EXCEPT !.name = Unwrap(partial.name)]
    ELSE merge

\* url step that keeps the base's url when the base has one
MergeUrlKeepsBase(partial, merge) ==
    IF IsSome(partial.url) /\ IsNone(merge.url)
    THEN [merge EXCEPT !.url = Some(Unwrap(partial.url))]
    ELSE merge

\* if let Some(url) = partial.url { merge.url = Some(url) }
MergeUrl(partial, merge) ==
    IF IsSome(partial.url)
    THEN [merge EXCEPT !.url = Some(Unwrap(partial.url))]
    ELSE merge

\* if let Some(natives) = partial.natives { ... }
MergeNatives(partial, merge) ==
    IF IsSome(partial.natives)
    THEN LET natives == Unwrap(partial.natives)
         IN  IF IsSome(merge.natives)
             THEN [merge EXCEPT !.natives =
                       Some(InsertAll(Unwrap(merge.natives), natives))]
             ELSE [merge EXCEPT !.natives = Some(natives)]
    ELSE merge

\* rules step that replaces the base's rules instead of appending
MergeRulesReplace(partial, merge) ==
    IF IsSome(partial.rules)
    THEN [merge EXCEPT !.rules = Some(Unwrap(partial.rules))]
    ELSE merge

\* if let Some(rules) = partial.rules { ... }
MergeRules(partial, merge) ==
    IF IsSome(partial.rules)
    THEN LET rules == Unwrap(partial.rules)
         IN  IF IsSome(merge.rules)
             THEN [merge EXCEPT !.rules =
                       Some(PushAll(Unwrap(merge.rules), rules))]
             ELSE [merge EXCEPT !.rules = Some(rules)]
    ELSE merge

\* if let Some(checksums) = partial.checksums { merge.checksums = Some(checksums) }
MergeChecksums(partial, merge) ==
    IF IsSome(partial.checksums)
    THEN [merge EXCEPT !.checksums = Some(Unwrap(partial.checksums))]
    ELSE merge

\* include_in_classpath step that resets an absent value to the default
MergeIncludeInClasspathDefault(partial, merge) ==
    IF IsSome(partial.include_in_classpath)
    THEN [merge EXCEPT !.include_in_classpath =
              Unwrap(partial.include_in_classpath)]
    ELSE [merge EXCEPT !.include_in_classpath = TRUE]

\* if let Some(include_in_classpath) = partial.include_in_classpath { ... }
MergeIncludeInClasspath(partial, merge) ==
    IF IsSome(partial.include_in_classpath)
    THEN [merge EXCEPT !.include_in_classpath =
              Unwrap(partial.include_in_classpath)]
    ELSE merge

\* patched step left out
SetPatchedMissing(merge) == merge

\* merge.patched = true;
SetPatched(merge) == [merge EXCEPT !.patched = TRUE]

\* merge_partial_library(partial, merge)
merge_partial_library(partial, merge) ==
    LET m1 == MergeDownloads(partial, merge)
        m2 == MergeExtract(partial, m1)
        m3 == MergeName(partial, m2)
        m4 == MergeUrl(partial, m3)
        m5 == MergeNatives(partial, m4)
        m6 == MergeRules(partial, m5)
        m7 == MergeChecksums(partial, m6)
        m8 == MergeIncludeInClasspath(partial, m7)
    IN  SetPatched(m8)

---------------------------------------------------------------------------
(* Inputs of the partial merge engine *)

\* LibraryDownload values
FileB == [path |-> "b.jar", sha1 |-> "5a", size |-> 1, url |-> None]

FileBase == [path |-> "lwjgl.jar", sha1 |-> "1f", size |-> 2, url |-> None]

FileP == [path |-> "lwjgl-p.jar", sha1 |-> "2e", size |-> 3, url |-> Some("h:p")]

FileX == [path |-> "a.jar", sha1 |-> "3d", size |-> 4, url |-> None]

FileZ == [path |-> "b-p.jar", sha1 |-> "4c", size |-> 5, url |-> None]

\* Rule values
RuleA == [action |-> "allow", os |-> None, features |-> None]

RuleB ==
    [action |-> "disallow",
     os |-> Some([name |-> Some("osx"), version |-> None, arch |-> None]),
     features |-> None]

LibraryDownloads(artifact, classifiers) ==
    [artifact |-> artifact, classifiers |-> classifiers]

\* a library with every optional field present, not included in the classpath
FullLibrary ==
    [downloads |-> Some(LibraryDownloads(Some(FileBase), Some("b" :> FileB))),
     extract |-> Some([exclude |-> Some(<<"META-INF/">>)]),
     name |-> "org.lwjgl:lwjgl:3.3.1",
     url |-> Some(StaticUrl),
     natives |-> Some("linux" :> "natives-linux"),
     rules |-> Some(<<RuleA>>),
     checksums |-> Some(<<"1f">>),
     include_in_classpath |-> FALSE,
     patched |-> FALSE,
     version_hashes |-> Some(<< <<"1.20", <<"a", "b", "c">> >> >>)]

\* libraries as deserialization produces them: patched is false
BaseLibraries == {DefaultLibrary, FullLibrary}

\* a PartialLibrary with every field absent
EmptyPartial ==
    [downloads |-> None, extract |-> None, name |-> None, url |-> None,
     natives |-> None, rules |-> None, checksums |-> None,
     include_in_classpath |-> None]

PartialExtracts == {None, Some([exclude |-> None])}

PartialNames == {None, Some("org.lwjgl:lwjgl:3.3.2")}

PartialUrls == {None, Some(<<"h", ":", "p">>)}

PartialChecksums == {None, Some(<<"2e", "2f">>)}

PartialIncludes == {None, Some(FALSE)}

PartialArtifacts == {None, Some(FileP)}

PartialClassifiers ==
    {None, Some("a" :> FileX), Some(("a" :> FileX) @@ ("b" :> FileZ))}

PartialDownloads ==
    {None} \cup {Some(LibraryDownloads(a, c)) :
                    a \in PartialArtifacts, c \in PartialClassifiers}

PartialNatives ==
    {None, Some(("linux" :> "natives-linux-p") @@ ("osx" :> "natives-osx"))}

PartialRules == {None, Some(<<RuleB, RuleA>>)}

\* partials over every combination of the replace-if-present fields
SimplePartials ==
    {[EmptyPartial EXCEPT !.downloads = d, !.extract = e, !.name = n,
                          !.url = u, !.checksums = c,
                          !.include_in_classpath = i] :
        d \in {None, Some(LibraryDownloads(Some(FileP), None))},
        e \in PartialExtracts, n \in PartialNames, u \in PartialUrls,
        c \in PartialChecksums, i \in PartialIncludes}

\* partials over every combination of the map- and list-valued fields
StructuredPartials ==
    {[EmptyPartial EXCEPT !.downloads = d, !.natives = n, !.rules = r] :
        d \in PartialDownloads, n \in PartialNatives, r \in PartialRules}

\* partials with every field present
FullPartials ==
    {[downloads |-> d,
      extract |-> Some([exclude |-> None]),
      name |-> Some("org.lwjgl:lwjgl:3.3.2"),
      url |-> Some(<<"h", ":", "p">>),
      natives |-> Some("osx" :> "natives-osx"),
      rules |-> Some(<<RuleB>>),
      checksums |-> Some(<<"2e", "2f">>),
      include_in_classpath |-> Some(TRUE)] :
        d \in PartialDownloads \ {None}}

PartialLibraries == SimplePartials \cup StructuredPartials \cup FullPartials

InitMerge ==
    /\ lib \in BaseLibraries
    /\ call = NoCall
    /\ origin = lib
    /\ appliedRules = <<>>
    /\ groups = NoGroups
    /\ entries = NoEntries
    /\ input = None

\* lib = merge_partial_library(partial, lib)
Merge ==
    /\ Len(appliedRules) < MaxMerges
    /\ \E partial \in PartialLibraries :
        LET result == merge_partial_library(partial, lib)
        IN  /\ lib' = result
            /\ call' = [op |-> "merge_partial_library", partial |-> partial,
                        merge |-> lib, result |-> result]
            /\ appliedRules' = Append(appliedRules, partial.rules)
    /\ UNCHANGED <<origin, groups, entries, input>>

NextMerge == Merge

SpecMerge == InitMerge /\ [][NextMerge]_vars

---------------------------------------------------------------------------
(* Properties of the partial merge engine *)

IsMergeCall == call.op = "merge_partial_library"

\* downloads.classifiers of a Library or PartialLibrary, absent if downloads is
ClassifiersOf(l) ==
    IF IsSome(l.downloads) THEN Unwrap(l.downloads).classifiers ELSE None

\* downloads.artifact of a Library or PartialLibrary, absent if downloads is
ArtifactOf(l) ==
    IF IsSome(l.downloads) THEN Unwrap(l.downloads).artifact ELSE None

\* r is the union of maps b and q in which the entries of q win
IsDeepMerge(r, b, q) ==
    /\ DOMAIN r = (DOMAIN b) \cup (DOMAIN q)
    /\ \A k \in DOMAIN q : r[k] = q[k]
    /\ \A k \in (DOMAIN b) \ (DOMAIN q) : r[k] = b[k]

RECURSIVE ConcatRules(_)
\* the rules of a sequence of partials, one after the other
ConcatRules(rs) ==
    IF rs = <<>> THEN <<>> ELSE ListOf(Head(rs)) \o ConcatRules(Tail(rs))

\* C5: merge_partial_library returns a library with patched = true for every
\* partial and every base, so the library is patched after any non-empty
\* sequence of merges.
C5_MergeSetsPatched ==
    /\ IsMergeCall => call.result.patched
    /\ Len(appliedRules) >= 1 => lib.patched

\* an empty partial merged into a base that is already patched
C5_Witness ==
    /\ IsMergeCall
    /\ call.partial = EmptyPartial
    /\ call.merge.patched
    /\ lib.patched

\* C6: merge_partial_library with a partial whose fields are all absent
\* returns a library equal to the base in every field except patched.
C6_EmptyPartialKeepsFields ==
    (IsMergeCall /\ call.partial = EmptyPartial)
        => /\ call.result.downloads = call.merge.downloads
           /\ call.result.extract = call.merge.extract
           /\ call.result.name = call.merge.name
           /\ call.result.url = call.merge.url
           /\ call.result.natives = call.merge.natives
           /\ call.result.rules = call.merge.rules
           /\ call.result.checksums = call.merge.checksums
           /\ call.result.include_in_classpath = call.merge.include_in_classpath
           /\ call.result.version_hashes = call.merge.version_hashes

\* the empty partial merged into the unpatched library with every field set
C6_Witness ==
    /\ IsMergeCall
    /\ call.partial = EmptyPartial
    /\ call.merge = FullLibrary
    /\ call.result = [FullLibrary EXCEPT !.patched = TRUE]

\* C7: downloads.classifiers and natives are deep-merged: the result map is
\* the union of the base map and the partial map, the partial's entries win,
\* base-only entries survive; with the base map (or the base's downloads)
\* absent the result map is the partial's map.
C7_DeepMerge ==
    IsMergeCall
        => /\ IsDeepMerge(MapOf(ClassifiersOf(call.result)),
                          MapOf(ClassifiersOf(call.merge)),
                          MapOf(ClassifiersOf(call.partial)))
           /\ IsDeepMerge(MapOf(call.result.natives),
                          MapOf(call.merge.natives),
                          MapOf(call.partial.natives))
           /\ (IsNone(ClassifiersOf(call.merge))
                 => ClassifiersOf(call.result) = ClassifiersOf(call.partial))
           /\ (IsNone(call.merge.natives)
                 => call.result.natives = call.partial.natives)

\* classifiers {"a": X} merged into {"b": B} give {"a": X, "b": B}, and the
\* natives of the partial overwrite "linux" and add "osx"
C7_Witness ==
    /\ IsMergeCall
    /\ ClassifiersOf(call.merge) = Some("b" :> FileB)
    /\ ClassifiersOf(call.partial) = Some("a" :> FileX)
    /\ ClassifiersOf(call.result) = Some(("a" :> FileX) @@ ("b" :> FileB))
    /\ call.merge.natives = Some("linux" :> "natives-linux")
    /\ call.result.natives =
         Some(("linux" :> "natives-linux-p") @@ ("osx" :> "natives-osx"))

\* C8: when the partial carries rules, the result's rules are the base's
\* rules (empty if absent) followed by the partial's rules, each in its
\* order; after merging p1 then p2 the rules are base ++ p1 ++ p2.
C8_RulesAppend ==
    /\ (IsMergeCall /\ IsSome(call.partial.rules))
          => call.result.rules =
               Some(ListOf(call.merge.rules) \o Unwrap(call.partial.rules))
    /\ (\E i \in 1..Len(appliedRules) : IsSome(appliedRules[i]))
          => lib.rules = Some(ListOf(origin.rules) \o ConcatRules(appliedRules))

\* two partials with rules merged one after the other into a base with a rule
C8_Witness ==
    /\ Len(appliedRules) = 2
    /\ origin.rules = Some(<<RuleA>>)
    /\ appliedRules = <<Some(<<RuleB>>), Some(<<RuleB, RuleA>>)>>
    /\ lib.rules = Some(<<RuleA, RuleB, RuleB, RuleA>>)

\* C9: name, url, extract, checksums, include_in_classpath and
\* downloads.artifact are each replaced by the partial's value when the
\* partial carries one and keep the base's value when it does not, whatever
\* the other fields of the partial are.
C9_ReplaceIfPresent ==
    IsMergeCall
        => LET p == call.partial
               b == call.merge
               r == call.result
           IN  /\ r.name = IF IsSome(p.name) THEN Unwrap(p.name) ELSE b.name
               /\ r.url = IF IsSome(p.url) THEN p.url ELSE b.url
               /\ r.extract = IF IsSome(p.extract) THEN p.extract ELSE b.extract
               /\ r.checksums =
                    IF IsSome(p.checksums) THEN p.checksums ELSE b.checksums
               /\ r.include_in_classpath =
                    IF IsSome(p.include_in_classpath)
                    THEN Unwrap(p.include_in_classpath)
                    ELSE b.include_in_classpath
               /\ ArtifactOf(r) =
                    IF IsSome(ArtifactOf(p)) THEN ArtifactOf(p) ELSE ArtifactOf(b)

\* a partial with url and an artifact but no name, merged into the library
\* with every field set
C9_Witness ==
    /\ IsMergeCall
    /\ call.merge = FullLibrary
    /\ IsSome(call.partial.url)
    /\ IsNone(call.partial.name)
    /\ ArtifactOf(call.partial) = Some(FileP)
    /\ call.result.url = call.partial.url
    /\ call.result.name = FullLibrary.name
    /\ ArtifactOf(call.result) = Some(FileP)

---------------------------------------------------------------------------
(* serde_json::to_vec: a JSON object is the sequence of its <<key, value>>  *)
(* members in the order they are written; a BTreeMap is written in key     *)
(* order, which its key set fixes, and a HashMap in iteration order.       *)

\* a member that #[serde(skip_serializing_if = "Option::is_none")] may skip
SkipIfNone(key, o, v) == IF IsSome(o) THEN << <<key, v>> >> ELSE <<>>

\* members of a BTreeMap, written in key order
JsonBTreeMap(m) == <<"object-by-key", m>>

\* members of a HashMap, written in iteration order
JsonHashMap(m) == <<"object", m>>

\* an Option<T> field without a skip attribute: null when absent
JsonOption(o) == IF IsSome(o) THEN Unwrap(o) ELSE "null"

SerializeLibraryDownload(d) ==
    << <<"path", d.path>>, <<"sha1", d.sha1>>, <<"size", d.size>>,
       <<"url", JsonOption(d.url)>> >>

SerializeLibraryDownloads(d) ==
    SkipIfNone("artifact", d.artifact,
               SerializeLibraryDownload(JsonOption(d.artifact)))
    \o SkipIfNone("classifiers", d.classifiers,
                  JsonBTreeMap([k \in DOMAIN MapOf(d.classifiers) |->
                     SerializeLibraryDownload(MapOf(d.classifiers)[k])]))

SerializeLibraryExtract(e) == SkipIfNone("exclude", e.exclude, ListOf(e.exclude))

SerializeOsRule(o) ==
    SkipIfNone("name", o.name, JsonOption(o.name))
    \o SkipIfNone("version", o.version, JsonOption(o.version))
    \o SkipIfNone("arch", o.arch, JsonOption(o.arch))

SerializeRule(r) ==
    << <<"action", r.action>> >>
    \o SkipIfNone("os", r.os, SerializeOsRule(JsonOption(r.os)))
    \o SkipIfNone("features", r.features, JsonOption(r.features))

\* Serialize for Dependency: `rule` is flattened and skipped when absent
SerializeDependency(d) ==
    << <<"name", d.name>>, <<"uid", d.uid>> >>
    \o SkipIfNone("rule", d.rule, JsonOption(d.rule))

\* a Serialize for Library that leaves version_hashes out
SerializeLibraryWithoutHashes(l) ==
    SkipIfNone("downloads", l.downloads,
               SerializeLibraryDownloads(JsonOption(l.downloads)))
    \o SkipIfNone("extract", l.extract,
                  SerializeLibraryExtract(JsonOption(l.extract)))
    \o << <<"name", l.name>> >>
    \o SkipIfNone("url", l.url, JsonOption(l.url))
    \o SkipIfNone("natives", l.natives, JsonBTreeMap(MapOf(l.natives)))
    \o SkipIfNone("rules", l.rules,
                  [i \in 1..Len(ListOf(l.rules)) |-> SerializeRule(ListOf(l.rules)[i])])
    \o SkipIfNone("checksums", l.checksums, ListOf(l.checksums))
    \o << <<"include_in_classpath", l.include_in_classpath>> >>

\* Serialize for Library: `patched` is #[serde(skip)]
SerializeLibrary(l) ==
    SkipIfNone("downloads", l.downloads,
               SerializeLibraryDownloads(JsonOption(l.downloads)))
    \o SkipIfNone("extract", l.extract,
                  SerializeLibraryExtract(JsonOption(l.extract)))
    \o << <<"name", l.name>> >>
    \o SkipIfNone("url", l.url, JsonOption(l.url))
    \o SkipIfNone("natives", l.natives, JsonBTreeMap(MapOf(l.natives)))
    \o SkipIfNone("rules", l.rules,
                  [i \in 1..Len(ListOf(l.rules)) |-> SerializeRule(ListOf(l.rules)[i])])
    \o SkipIfNone("checksums", l.checksums, ListOf(l.checksums))
    \o << <<"include_in_classpath", l.include_in_classpath>> >>
    \o SkipIfNone("version_hashes", l.version_hashes,
                  JsonHashMap(ListOf(l.version_hashes)))

\* Serialize for LibraryGroup (camelCase): `has_split_natives` is
\* #[serde(skip_serializing)]
SerializeLibraryGroup(g) ==
    << <<"id", g.id>>, <<"version", g.version>>, <<"uid", g.uid>>,
       <<"releaseTime", <<"rfc3339", g.release_time>> >>,
       <<"type", g.type_>>,
       <<"libraries", [i \in 1..Len(g.libraries) |-> SerializeLibrary(g.libraries[i])]>> >>
    \o SkipIfNone("requires", g.requires,
                  [i \in 1..Len(ListOf(g.requires)) |->
                     SerializeDependency(ListOf(g.requires)[i])])
    \o SkipIfNone("conflicts", g.conflicts,
                  [i \in 1..Len(ListOf(g.conflicts)) |->
                     SerializeDependency(ListOf(g.conflicts)[i])])

\* Sha1::hexdigest of the bytes: a function of the bytes, taken as free of
\* collisions
Sha1HexDigest(bytes) == <<"sha1", bytes>>

\* DateTime::default(): the Unix epoch, in seconds
DateTimeDefault == 0

\* LWJGLEntry::from_group
from_group(group) ==
    LET group_copy == [group EXCEPT !.release_time = DateTimeDefault]
        hash == Sha1HexDigest(SerializeLibraryGroup(group_copy))
    IN  [sha1 |-> hash, group |-> group]

---------------------------------------------------------------------------
(* Inputs of the group fingerprint *)

HashedEntry1 == <<"1.16.5", <<"a", "b", "c">> >>

HashedEntry2 == <<"1.17.1", <<"d", "e", "f">> >>

\* the same version_hashes map in its two iteration orders
HashedLibrary12 ==
    [DefaultLibrary EXCEPT !.version_hashes = Some(<<HashedEntry1, HashedEntry2>>)]

HashedLibrary21 ==
    [DefaultLibrary EXCEPT !.version_hashes = Some(<<HashedEntry2, HashedEntry1>>)]

\* a version_hashes map with one entry
HashedLibrary1 ==
    [DefaultLibrary EXCEPT !.version_hashes = Some(<<HashedEntry1>>)]

PatchedLibrary == [DefaultLibrary EXCEPT !.patched = TRUE]

GroupLibraryLists ==
    {<<>>, <<DefaultLibrary>>, <<PatchedLibrary>>, <<HashedLibrary1>>,
     <<HashedLibrary12>>, <<HashedLibrary21>>,
     <<FullLibrary, DefaultLibrary>>, <<DefaultLibrary, FullLibrary>>}

RequiredDependency == [name |-> "lwjgl", uid |-> "org.lwjgl", rule |-> None]

LibraryGroups ==
    {[id |-> "LWJGL", version |-> v, uid |-> "org.lwjgl", release_time |-> t,
      type_ |-> "release", libraries |-> ls, requires |-> rq,
      conflicts |-> None, has_split_natives |-> sn] :
        v \in {"3.3.1", "3.3.2"}, t \in {1, 2}, ls \in GroupLibraryLists,
        rq \in {None, Some(<<RequiredDependency>>)},
        sn \in {None, Some(TRUE)}}

InitGroup ==
    /\ lib = DefaultLibrary
    /\ call = NoCall
    /\ origin = lib
    /\ appliedRules = <<>>
    /\ groups \in [Slots -> {Some(g) : g \in LibraryGroups}]
    /\ entries = NoEntries
    /\ input = None

\* entries[w] = LWJGLEntry::from_group(groups[w])
FromGroup ==
    \E w \in Slots :
        /\ IsNone(entries[w])
        /\ entries' = [entries EXCEPT ![w] = Some(from_group(Unwrap(groups[w])))]
        /\ UNCHANGED <<lib, call, origin, appliedRules, groups, input>>

NextGroup == FromGroup

SpecGroup == InitGroup /\ [][NextGroup]_vars

---------------------------------------------------------------------------
(* Properties of the group fingerprint *)

\* equality of two Option<HashMap>: the same entries, in whatever order
HashMapOptionEq(a, b) ==
    /\ IsSome(a) = IsSome(b)
    /\ HashMapEntries(ListOf(a)) = HashMapEntries(ListOf(b))

\* two libraries equal field by field
LibraryEq(a, b) ==
    /\ [a EXCEPT !.version_hashes = None] = [b EXCEPT !.version_hashes = None]
    /\ HashMapOptionEq(a.version_hashes, b.version_hashes)

\* two groups equal field by field, release_time left aside
GroupEqExceptReleaseTime(a, b) ==
    /\ [a EXCEPT !.release_time = 0, !.libraries = <<>>]
         = [b EXCEPT !.release_time = 0, !.libraries = <<>>]
    /\ Len(a.libraries) = Len(b.libraries)
    /\ \A i \in 1..Len(a.libraries) : LibraryEq(a.libraries[i], b.libraries[i])

BothEntriesMade == IsSome(entries["A"]) /\ IsSome(entries["B"])

\* C10: two LibraryGroup values equal in every field except release_time get
\* the same sha1, and each entry keeps the caller's group with its original
\* release_time.
C10_FingerprintIgnoresReleaseTime ==
    /\ \A w \in Slots :
          IsSome(entries[w]) => Unwrap(entries[w]).group = Unwrap(groups[w])
    /\ (BothEntriesMade
        /\ GroupEqExceptReleaseTime(Unwrap(groups["A"]), Unwrap(groups["B"])))
          => Unwrap(entries["A"]).sha1 = Unwrap(entries["B"]).sha1

\* two groups equal field by field
GroupEq(a, b) ==
    /\ a.release_time = b.release_time
    /\ GroupEqExceptReleaseTime(a, b)

\* C11: from_group is deterministic: two calls on field-for-field equal
\* LibraryGroup values give the same fingerprint, whatever the iteration
\* order of a map inside the group is.
C11_FingerprintDeterministic ==
    (BothEntriesMade /\ GroupEq(Unwrap(groups["A"]), Unwrap(groups["B"])))
        => Unwrap(entries["A"]).sha1 = Unwrap(entries["B"]).sha1

---------------------------------------------------------------------------
(* Deserialize for Os: #[derive(Deserialize)] with                          *)
(* #[serde(rename_all = "kebab-case")].  A variant identifier is the        *)
(* sequence of its capitalized words; a token is the sequence of its        *)
(* hyphen-separated segments ("osx-arm64" is <<"osx", "arm64">>).           *)

\* the variants of enum Os, in declaration order
OsVariants ==
    << <<"Osx">>, <<"Osx", "Arm64">>, <<"Windows">>, <<"Windows", "Arm64">>,
       <<"Linux">>, <<"Linux", "Arm64">>, <<"Linux", "Arm32">>, <<"Unknown">> >>

\* a word of a variant identifier in lower case
Lowercase(word) ==
    CASE word = "Osx" -> "osx"
      [] word = "Windows" -> "windows"
      [] word = "Linux" -> "linux"
      [] word = "Arm64" -> "arm64"
      [] word = "Arm32" -> "arm32"
      [] word = "Unknown" -> "unknown"
      [] OTHER -> word

\* serde's kebab-case rename: the words in lower case, joined by hyphens
KebabCase(variant) == [i \in 1..Len(variant) |-> Lowercase(variant[i])]

Ok(v) == [ok |-> TRUE, value |-> v]

Err(e) == [ok |-> FALSE, value |-> e]

\* the derived Deserialize: the variant whose renamed identifier is the
\* token, an "unknown variant" error when there is none
deserialize_os(token) ==
    IF \E i \in 1..Len(OsVariants) : KebabCase(OsVariants[i]) = token
    THEN Ok(OsVariants[CHOOSE i \in 1..Len(OsVariants) :
                          KebabCase(OsVariants[i]) = token])
    ELSE Err("unknown variant")

\* segments of the Os tokens a document may carry
TokenSegments ==
    {"osx", "windows", "linux", "arm64", "arm32", "unknown", "freebsd", "Linux"}

OsTokens == StringsUpTo(TokenSegments, MaxSegments) \ {<<>>}

InitOs ==
    /\ lib = DefaultLibrary
    /\ call = NoCall
    /\ origin = lib
    /\ appliedRules = <<>>
    /\ groups = NoGroups
    /\ entries = NoEntries
    /\ input \in {Some(t) : t \in OsTokens}

\* deserializing the Os key held in `input`
DeserializeOs ==
    /\ call = NoCall
    /\ call' = [op |-> "deserialize_os", token |-> Unwrap(input),
                result |-> deserialize_os(Unwrap(input))]
    /\ UNCHANGED <<lib, origin, appliedRules, groups, entries, input>>

NextOs == DeserializeOs

SpecOs == InitOs /\ [][NextOs]_vars

---------------------------------------------------------------------------
(* Properties of the Os deserializer *)

IsOsCall == call.op = "deserialize_os"

\* the variant the wire format assigns to a token: one of the seven platform
\* tokens gives its own variant, every other token gives Unknown
ExpectedOs(token) ==
    CASE token = <<"osx">> -> <<"Osx">>
      [] token = <<"osx", "arm64">> -> <<"Osx", "Arm64">>
      [] token = <<"windows">> -> <<"Windows">>
      [] token = <<"windows", "arm64">> -> <<"Windows", "Arm64">>
      [] token = <<"linux">> -> <<"Linux">>
      [] token = <<"linux", "arm64">> -> <<"Linux", "Arm64">>
      [] token = <<"linux", "arm32">> -> <<"Linux", "Arm32">>
      [] OTHER -> <<"Unknown">>

\* C12: deserializing an Os key gives its own variant for each of the seven
\* platform tokens and Os::Unknown, not a parse error, for every other token.
C12_UnknownOsTokenIsUnknown ==
    IsOsCall => (call.result.ok /\ call.result.value = ExpectedOs(call.token))

---------------------------------------------------------------------------
(* Rule evaluator over the Rule, OsRule and FeatureRule records.  An        *)
(* execution context is [os, version_patterns, arch, features]:             *)
(* version_patterns is the set of patterns the host's version matches (the  *)
(* pluggable matcher), features the set of enabled feature flags.           *)

\* a present os.name, os.version and os.arch must each match the context
os_rule_matches(os, ctx) ==
    /\ IsSome(os.name) => Unwrap(os.name) = ctx.os
    /\ IsSome(os.version) => Unwrap(os.version) \in ctx.version_patterns
    /\ IsSome(os.arch) => Some(Unwrap(os.arch)) = ctx.arch

\* every present feature predicate must equal the flag of the context
feature_rule_matches(features, ctx) ==
    \A f \in DOMAIN features :
        IsSome(features[f]) => Unwrap(features[f]) = (f \in ctx.features)

\* a rule matches iff every predicate it carries matches
rule_matches(rule, ctx) ==
    /\ IsSome(rule.os) => os_rule_matches(Unwrap(rule.os), ctx)
    /\ IsSome(rule.features) => feature_rule_matches(Unwrap(rule.features), ctx)

RECURSIVE fold_rules_first(_, _, _, _)
\* a fold that stops changing the decision after the first matching rule
fold_rules_first(rules, ctx, decision, decided) ==
    IF rules = <<>> THEN decision
    ELSE IF rule_matches(Head(rules), ctx) /\ ~decided
         THEN fold_rules_first(Tail(rules), ctx, Head(rules).action = "allow", TRUE)
         ELSE fold_rules_first(Tail(rules), ctx, decision, decided)

RECURSIVE fold_rules(_, _, _)
\* the fold: each matching rule sets the running decision to its action
fold_rules(rules, ctx, decision) ==
    IF rules = <<>> THEN decision
    ELSE fold_rules(Tail(rules), ctx,
                    IF rule_matches(Head(rules), ctx)
                    THEN Head(rules).action = "allow"
                    ELSE decision)

\* an evaluator in which the first matching rule wins
evaluate_first_match(rules, ctx) ==
    IF ListOf(rules) = <<>> THEN TRUE
    ELSE fold_rules_first(ListOf(rules), ctx, FALSE, FALSE)

\* evaluate(rules, ctx): true for an empty or absent list, else the fold
\* from false
evaluate(rules, ctx) ==
    IF ListOf(rules) = <<>> THEN TRUE
    ELSE fold_rules(ListOf(rules), ctx, FALSE)

NoFeatures ==
    [is_demo_user |-> None, has_custom_resolution |-> None,
     has_quick_plays_support |-> None, is_quick_play_singleplayer |-> None,
     is_quick_play_multiplayer |-> None, is_quick_play_realms |-> None]

DisallowAll == [action |-> "disallow", os |-> None, features |-> None]

AllowLinuxArm ==
    [action |-> "allow",
     os |-> Some([name |-> Some("linux"), version |-> Some("^5\\."),
                  arch |-> Some("arm64")]),
     features |-> None]

AllowDemo ==
    [action |-> "allow", os |-> None,
     features |-> Some([NoFeatures EXCEPT !.is_demo_user = Some(TRUE)])]

DisallowNoDemo ==
    [action |-> "disallow", os |-> None,
     features |-> Some([NoFeatures EXCEPT !.is_demo_user = Some(FALSE)])]

EvalRules == {RuleA, RuleB, DisallowAll, AllowLinuxArm, AllowDemo, DisallowNoDemo}

RuleLists == {None} \cup {Some(rs) : rs \in StringsUpTo(EvalRules, MaxRules)}

Contexts ==
    {[os |-> "osx", version_patterns |-> {}, arch |-> None, features |-> {}],
     [os |-> "linux", version_patterns |-> {"^5\\."}, arch |-> Some("arm64"),
      features |-> {"is_demo_user"}],
     [os |-> "linux", version_patterns |-> {}, arch |-> Some("x86"),
      features |-> {}]}

InitRules ==
    /\ lib = DefaultLibrary
    /\ call = NoCall
    /\ origin = lib
    /\ appliedRules = <<>>
    /\ groups = NoGroups
    /\ entries = NoEntries
    /\ input \in {Some([rules |-> rs, ctx |-> c]) : rs \in RuleLists, c \in Contexts}

\* evaluating the rule list held in `input` against its context
Evaluate ==
    /\ call = NoCall
    /\ call' = [op |-> "evaluate", rules |-> Unwrap(input).rules,
                ctx |-> Unwrap(input).ctx,
                result |-> evaluate(Unwrap(input).rules, Unwrap(input).ctx)]
    /\ UNCHANGED <<lib, origin, appliedRules, groups, entries, input>>

NextRules == Evaluate

SpecRules == InitRules /\ [][NextRules]_vars

---------------------------------------------------------------------------
(* Properties of the rule evaluator *)

IsEvaluateCall == call.op = "evaluate"

\* the positions of the rules of rs that match the context
MatchingPositions(rs, ctx) == {i \in 1..Len(rs) : rule_matches(rs[i], ctx)}

\* the largest element of a non-empty set of numbers
Maximum(S) == CHOOSE i \in S : \A j \in S : j <= i

\* C13: rule evaluation is last-match-wins: an empty or absent list gives
\* true; otherwise the result is the action of the last matching rule, and
\* false if no rule matches.
C13_LastMatchWins ==
    IsEvaluateCall
        => LET rs == ListOf(call.rules)
               matching == MatchingPositions(rs, call.ctx)
           IN  call.result =
                 IF rs = <<>> THEN TRUE
                 ELSE IF matching = {} THEN FALSE
                 ELSE rs[Maximum(matching)].action = "allow"

\* [Allow, Disallow], both matching, evaluated to false
C13_Witness ==
    /\ IsEvaluateCall
    /\ call.rules = Some(<<RuleA, DisallowAll>>)
    /\ call.result = FALSE

---------------------------------------------------------------------------
(* Further properties of the content resolver *)

---------------------------------------------------------------------------
(* Further properties of the group fingerprint *)

\* two library lists with the same number of entries, equal entry by entry
LibrariesEq(a, b) ==
    /\ Len(a) = Len(b)
    /\ \A i \in 1..Len(a) : LibraryEq(a[i], b[i])

\* the same, the patched flag of the entries left aside
LibrariesEqExceptPatched(a, b) ==
    /\ Len(a) = Len(b)
    /\ \A i \in 1..Len(a) :
          LibraryEq([a[i] EXCEPT !.patched = FALSE], [b[i] EXCEPT !.patched = FALSE])

\* C15 as stated: two groups whose libraries differ in any field of any
\* entry (patched and version_hashes included), or in the number or order of
\* entries, get different fingerprints.
C15_AnyLibraryChangeChangesSha1 ==
    (BothEntriesMade
     /\ ~LibrariesEq(Unwrap(groups["A"]).libraries, Unwrap(groups["B"]).libraries))
        => Unwrap(entries["A"]).sha1 # Unwrap(entries["B"]).sha1

\* C15 as amended: two groups whose libraries differ in a field other than
\* patched of some entry, or in the number or order of entries, get
\* different fingerprints.
C15_SerializedLibraryChangeChangesSha1 ==
    (BothEntriesMade
     /\ ~LibrariesEqExceptPatched(Unwrap(groups["A"]).libraries,
                                  Unwrap(groups["B"]).libraries))
        => Unwrap(entries["A"]).sha1 # Unwrap(entries["B"]).sha1

\* two groups that differ only in one library's version_hashes (one entry
\* against two) and got different fingerprints
C15_Witness ==
    /\ BothEntriesMade
    /\ Unwrap(groups["A"]).libraries = <<HashedLibrary1>>
    /\ Unwrap(groups["B"]).libraries = <<HashedLibrary12>>
    /\ [Unwrap(groups["A"]) EXCEPT !.libraries = <<>>]
         = [Unwrap(groups["B"]) EXCEPT !.libraries = <<>>]
    /\ Unwrap(entries["A"]).sha1 # Unwrap(entries["B"]).sha1

=============================================================================
